---- MODULE Spec2Model ----
\* A model of the serrors package (github.com/morningconsult/serrors):
\* errors that carry a captured call stack (stackErr) and an integer status
\* code (statusError), together with the parts of the Go runtime and standard
\* library they rest on (interface comparison, errors.Is, errors.As,
\* fmt.Errorf with one %w operand, runtime.Callers).
\*
\* An error value is a record.  Values of pointer types carry the address they
\* were allocated at ("addr" > 0); values of struct and string types are
\* compared by content, as Go compares them.  Strings are sequences of text
\* atoms, so that concatenation by fmt.Errorf is computed and not assumed.
EXTENDS Integers, Sequences, FiniteSets, TLC

VARIABLES calls, nextAddr, readers, cursors

vars == <<calls, nextAddr, readers, cursors>>

\* ---------------------------------------------------------------- bounds

\* Number of calls the modelled program makes (one program line each).
MaxCalls == 3

\* Number of calls that build the error the concurrent readers share.
MaxBuild == 2

\* Number of goroutines that read the shared error.
MaxReaders == 2

\* ------------------------------------------------------- program constants

\* make([]uintptr, 20): the capacity of the captured snapshot.
MaxFrames == 20

\* runtime.Callers(3, pc): the frames skipped by the capture helper.
SkipFrames == 3

\* Message texts handed to New and to Sentinel.
Msgs == {"a", "b"}

\* Status codes handed to the status constructors: a negative value and the
\* zero value (no constructor but NewFromStatus looks at the code).
Codes == {-1, 0}

\* Status codes handed to NewFromStatus: those, which http.StatusText does
\* not recognise, and two it recognises.
FromStatusCodes == Codes \cup {200, 418}

\* The panic value of WithStatus.
NilStatusPanic == "cannot attach status to nil error"

\* The fallback text of NewFromStatus.
UnknownStatusText == "Unknown Status Error"

\* ------------------------------------------------------------- error values

\* The nil error interface value.
Nil == [kind |-> "nil"]

\* *errors.errorString, as returned by errors.New and by fmt.Errorf without %w.
ErrorsNew(text, a) == [kind |-> "errorString", addr |-> a, msg |-> text]

\* A Sentinel whose Error() decorates its string.
SentinelPrefixed(m) == [kind |-> "Sentinel", msg |-> <<"sentinel: ", m>>]

\* serrors.Sentinel: a string type, compared by value.
Sentinel(m) == [kind |-> "Sentinel", msg |-> <<m>>]

\* stackErr{err, trace, stackTracer}; addr = 0 is a struct value, addr > 0 is
\* a *stackErr pointing to a struct allocated at that address.
MkStackErr(a, e, tr, st) ==
    [kind |-> "stackErr", addr |-> a, err |-> e, trace |-> tr, stackTracer |-> st]

\* statusError{HTTPStatusCode, Err}, always a struct value.
MkStatusError(c, e) == [kind |-> "statusError", HTTPStatusCode |-> c, Err |-> e]

\* text/template's ExecError{Name, Err}, the error of a failed Execute: a
\* struct value whose Error() is that of Err.
MkExecError(name, e) == [kind |-> "execError", name |-> name, err |-> e]

\* The dynamic type of an interface value.
TypeOf(e) ==
    IF e.kind = "stackErr"
    THEN (IF e.addr = 0 THEN "stackErr" ELSE "*stackErr")
    ELSE e.kind

\* Whether the dynamic type has an Unwrap() error method.
HasUnwrap(e) == e.kind \in {"wrapError", "stackErr", "statusError", "execError"}

\* stackErr.Unwrap, statusError.Unwrap and fmt's wrapError.Unwrap.
Unwrap(e) ==
    CASE e.kind = "wrapError" -> e.err
      [] e.kind = "stackErr" -> e.err
      [] e.kind = "statusError" -> e.Err
      [] e.kind = "execError" -> e.err
      [] OTHER -> Nil

\* The Error() method of every error type of the model.
RECURSIVE ErrorMsg(_)
ErrorMsg(e) ==
    CASE e.kind = "errorString" -> e.msg
      [] e.kind = "Sentinel" -> e.msg
      [] e.kind = "wrapError" -> e.msg
      [] e.kind = "execError" -> ErrorMsg(e.err)
      [] e.kind = "stackErr" -> (IF e.err = Nil THEN <<>> ELSE ErrorMsg(e.err))
      [] e.kind = "statusError" -> (IF e.Err = Nil THEN <<>> ELSE ErrorMsg(e.Err))
      [] OTHER -> <<>>

\* fmt.Errorf(format, vals...): without an error operand the result is
\* errors.New of the formatted text; with one %w operand it is a *wrapError
\* whose message embeds the operand's Error() and whose Unwrap is the operand.
FmtErrorf(prefix, e, a) ==
    IF e = Nil
    THEN ErrorsNew(<<prefix>>, a)
    ELSE [kind |-> "wrapError", addr |-> a, msg |-> <<prefix>> \o ErrorMsg(e), err |-> e]

\* ------------------------------------------------- Go runtime and library

\* reflect's Comparable() of the dynamic type: stackErr holds a slice.
Comparable(e) == TypeOf(e) # "stackErr"

\* The == of two interface values: "true", "false", or "panic" (the runtime
\* error of comparing two values of one uncomparable dynamic type).  Struct
\* fields are compared in source order and comparison stops at the first
\* difference.
RECURSIVE GoEq(_, _)
GoEq(x, y) ==
    IF TypeOf(x) # TypeOf(y) THEN "false"
    ELSE CASE x.kind = "nil" -> "true"
           [] x.kind = "errorString" -> (IF x.addr = y.addr THEN "true" ELSE "false")
           [] x.kind = "wrapError" -> (IF x.addr = y.addr THEN "true" ELSE "false")
           [] x.kind = "Sentinel" -> (IF x.msg = y.msg THEN "true" ELSE "false")
           [] x.kind = "execError" ->
                (IF x.name # y.name THEN "false" ELSE GoEq(x.err, y.err))
           [] x.kind = "stackErr" ->
                (IF x.addr = 0 THEN "panic"
                 ELSE IF x.addr = y.addr THEN "true" ELSE "false")
           [] x.kind = "statusError" ->
                (IF x.HTTPStatusCode # y.HTTPStatusCode THEN "false"
                 ELSE GoEq(x.Err, y.Err))
           [] OTHER -> "false"

\* errors.Is(err, target) with the Is method of stackErr: "true", "false" or
\* "panic".  IsLoop is the unexported loop errors.Is runs; StackErrIs is the
\* method (se stackErr) Is(err error) bool, which *stackErr has as well.
RECURSIVE Is(_, _)
RECURSIVE IsLoop(_, _, _)
RECURSIVE StackErrIs(_, _)

\* An Is method that compares the messages.
StackErrIsByMessage(se, err) ==
    IF ErrorMsg(se) = ErrorMsg(err) THEN "true" ELSE "false"

StackErrIs(se, err) ==
    IF TypeOf(err) = "stackErr"
    THEN Is(se.err, err.err)
    ELSE Is(se.err, err)

IsLoop(err, target, targetComparable) ==
    LET eq == IF targetComparable THEN GoEq(err, target) ELSE "false"
        viaMethod == IF err.kind = "stackErr" THEN StackErrIs(err, target) ELSE "false"
    IN  IF eq # "false" THEN eq
        ELSE IF viaMethod # "false" THEN viaMethod
        ELSE IF HasUnwrap(err)
             THEN (IF Unwrap(err) = Nil THEN "false"
                   ELSE IsLoop(Unwrap(err), target, targetComparable))
             ELSE "false"

Is(err, target) ==
    IF err = Nil \/ target = Nil
    THEN (IF err = target THEN "true" ELSE "false")
    ELSE IsLoop(err, target, Comparable(target))

\* errors.As(err, &st) with st a StackTracer: the first error of the chain
\* whose type has a StackTrace method (stackErr and *stackErr); Nil if none.
RECURSIVE AsStackTracer(_)
AsStackTracer(err) ==
    IF err = Nil THEN Nil
    ELSE IF err.kind = "stackErr" THEN err
    ELSE IF HasUnwrap(err) THEN AsStackTracer(Unwrap(err))
    ELSE Nil

\* errors.As(err, &sc) with sc a StatusCoder: the first statusError of the chain.
\* An extraction that prefers the Status Error deepest in the chain.
RECURSIVE AsStatusCoderInnermost(_)
AsStatusCoderInnermost(err) ==
    IF err = Nil THEN Nil
    ELSE LET deeper == IF HasUnwrap(err) THEN AsStatusCoderInnermost(Unwrap(err)) ELSE Nil
         IN  IF deeper # Nil THEN deeper
             ELSE IF err.kind = "statusError" THEN err
             ELSE Nil

RECURSIVE AsStatusCoder(_)
AsStatusCoder(err) ==
    IF err = Nil THEN Nil
    ELSE IF err.kind = "statusError" THEN err
    ELSE IF HasUnwrap(err) THEN AsStatusCoder(Unwrap(err))
    ELSE Nil

\* ------------------------------------------------------------- call stacks

\* A frame of the call stack.
Frame(fn, file, line) == [Function |-> fn, File |-> file, Line |-> line]

\* The stack of the application code that makes the program's n-th call:
\* the call on line n of main.run, called from main.main.
CallerStack(n) ==
    << Frame("main.run", "main.go", n), Frame("main.main", "main.go", 0) >>

\* The stack inside a function of the package called from stack stk.
Enter(fn, stk) == << Frame(fn, "serrors", 0) >> \o stk

\* buildStackTrace, called from a function whose stack is stk: runtime.Callers
\* sees its own frame and buildStackTrace's on top of stk, skips SkipFrames
\* frames and fills at most MaxFrames entries.
\* A capture that skips one frame fewer.
buildStackTraceSkipsTwo(stk) ==
    LET full == << Frame("runtime.Callers", "runtime", 0),
                   Frame("serrors.buildStackTrace", "serrors", 0) >> \o stk
    IN  SubSeq(full, SkipFrames, Len(full))

buildStackTrace(stk) ==
    LET full == << Frame("runtime.Callers", "runtime", 0),
                   Frame("serrors.buildStackTrace", "serrors", 0) >> \o stk
        rest == SubSeq(full, SkipFrames + 1, Len(full))
    IN  IF Len(rest) > MaxFrames THEN SubSeq(rest, 1, MaxFrames) ELSE rest

\* --------------------------------------------------------------- errors.go

\* (se stackErr) StackTrace(): the frames of the delegate if there is one,
\* else the frames of the own snapshot.
RECURSIVE StackTrace(_)
StackTrace(se) ==
    IF se.stackTracer # Nil THEN StackTrace(se.stackTracer) ELSE se.trace

\* The result of a call: the error returned, the number of addresses the call
\* allocated, and the panic value ("" when the call returned).
Ret(e, n) == [out |-> e, used |-> n, panicked |-> ""]
Panic(v) == [out |-> Nil, used |-> 0, panicked |-> v]

\* WithStack without the search for an existing StackTracer.
WithStackAlwaysCaptures(err, stk) ==
    IF err = Nil THEN Ret(Nil, 0)
    ELSE Ret(MkStackErr(0, err, buildStackTrace(Enter("serrors.WithStack", stk)), Nil), 0)

\* WithStack that wraps its argument again although the chain has a trace.
WithStackRewraps(err, stk) ==
    IF err = Nil THEN Ret(Nil, 0)
    ELSE IF AsStackTracer(err) # Nil
    THEN Ret(MkStackErr(0, err, <<>>, AsStackTracer(err)), 0)
    ELSE Ret(MkStackErr(0, err, buildStackTrace(Enter("serrors.WithStack", stk)), Nil), 0)

\* WithStack without the nil check.
WithStackNoNilCheck(err, stk) ==
    IF AsStackTracer(err) # Nil THEN Ret(err, 0)
    ELSE Ret(MkStackErr(0, err, buildStackTrace(Enter("serrors.WithStack", stk)), Nil), 0)

\* WithStack(err), called from stack stk.
\* WithStack that bundles the zero status code with what it returns.
WithStackAddsStatus(err, stk) ==
    IF err = Nil THEN Ret(Nil, 0)
    ELSE IF AsStackTracer(err) # Nil THEN Ret(MkStatusError(0, err), 0)
    ELSE Ret(MkStatusError(0,
                MkStackErr(0, err, buildStackTrace(Enter("serrors.WithStack", stk)), Nil)), 0)

WithStack(err, stk) ==
    IF err = Nil THEN Ret(Nil, 0)
    ELSE IF AsStackTracer(err) # Nil THEN Ret(err, 0)
    ELSE Ret(MkStackErr(0, err, buildStackTrace(Enter("serrors.WithStack", stk)), Nil), 0)

\* New(msg), called from stack stk with a the next free address.
New(m, stk, a) ==
    Ret(MkStackErr(0, ErrorsNew(<<m>>, a),
                   buildStackTrace(Enter("serrors.New", stk)), Nil), 1)

\* Errorf that captures at its own call site whatever the chain holds.
\* The Traced Error whose snapshot a Traced Error reports.
RECURSIVE Capturer(_)
Capturer(se) == IF se.stackTracer # Nil THEN Capturer(se.stackTracer) ELSE se

\* Errorf that wraps a Traced Error operand itself, without fmt.Errorf.
ErrorfWrapsOperand(e, stk, a) ==
    LET err == FmtErrorf("w: ", e, a)
    IN  IF e # Nil /\ e.kind = "stackErr"
        THEN Ret(MkStackErr(0, e, <<>>, e), 0)
        ELSE IF AsStackTracer(err) # Nil
        THEN Ret(MkStackErr(0, err, <<>>, AsStackTracer(err)), 1)
        ELSE Ret(MkStackErr(0, err, buildStackTrace(Enter("serrors.Errorf", stk)), Nil), 1)

\* Errorf that refers to the capturing Traced Error itself.
ErrorfDelegatesToCapturer(e, stk, a) ==
    LET err == FmtErrorf("w: ", e, a)
        st == AsStackTracer(err)
    IN  IF st # Nil
        THEN Ret(MkStackErr(0, err, <<>>, Capturer(st)), 1)
        ELSE Ret(MkStackErr(0, err, buildStackTrace(Enter("serrors.Errorf", stk)), Nil), 1)

ErrorfAlwaysCaptures(e, stk, a) ==
    Ret(MkStackErr(0, FmtErrorf("w: ", e, a),
                   buildStackTrace(Enter("serrors.Errorf", stk)), Nil), 1)

\* Errorf(format, vals...), called from stack stk: e is the %w operand (Nil
\* when the format has none).
Errorf(e, stk, a) ==
    LET err == FmtErrorf("w: ", e, a)
        st == AsStackTracer(err)
    IN  IF st # Nil
        THEN Ret(MkStackErr(0, err, <<>>, st), 1)
        ELSE Ret(MkStackErr(0, err, buildStackTrace(Enter("serrors.Errorf", stk)), Nil), 1)

\* The templates a caller hands to Trace: the two of the package, one that
\* names a field runtime.Frame does not have, and one that names such a field
\* only when it renders a frame of main.main (so that it fails on a later
\* frame, after lines have been produced).
Templates == {"StandardFormat", "PanicFormat", "InvalidFormat", "InvalidInMain"}

\* t.Execute(&b, frame): the text written, or the failure.
Execute(t, f) ==
    CASE t = "StandardFormat" ->
            [ok |-> TRUE, text |-> <<f.Function, " (", f.File, ":", ToString(f.Line), ")">>]
      [] t = "PanicFormat" ->
            [ok |-> TRUE, text |-> <<f.Function, "\n\t", f.File, ":", ToString(f.Line)>>]
      [] t = "InvalidInMain" /\ f.Function # "main.main" ->
            [ok |-> TRUE, text |-> <<f.Function>>]
      [] OTHER ->
            [ok |-> FALSE, text |-> <<"can't evaluate field Foobar in type runtime.Frame">>]

\* What the iteration of Trace visits: frames.Next() is called at least once,
\* and yields the zero Frame when the snapshot is empty.
FramesVisited(fs) == IF fs = <<>> THEN << Frame("", "", 0) >> ELSE fs

\* Trace that runs the template without having found a StackTracer.
TraceWithoutTracerCheck(e, t, stk, a) ==
    LET se == AsStackTracer(e)
        fs == FramesVisited(IF se = Nil THEN <<>> ELSE StackTrace(se))
        bad == {i \in 1..Len(fs) : ~Execute(t, fs[i]).ok}
        first == CHOOSE i \in bad : \A j \in bad : i <= j
        failure == MkExecError(t, ErrorsNew(Execute(t, fs[first]).text, a))
    IN  IF bad # {}
        THEN [lines |-> <<>>,
              err |-> WithStack(failure, Enter("serrors.Trace", stk)).out,
              used |-> 1]
        ELSE [lines |-> [i \in 1..Len(fs) |-> Execute(t, fs[i]).text],
              err |-> Nil, used |-> 0]

\* Trace that returns the lines rendered before the template failed.
TracePartialLines(e, t, stk, a) ==
    LET se == AsStackTracer(e)
        fs == FramesVisited(StackTrace(se))
        bad == {i \in 1..Len(fs) : ~Execute(t, fs[i]).ok}
        first == CHOOSE i \in bad : \A j \in bad : i <= j
        failure == MkExecError(t, ErrorsNew(Execute(t, fs[first]).text, a))
    IN  IF se = Nil THEN [lines |-> <<>>, err |-> Nil, used |-> 0]
        ELSE IF bad # {}
        THEN [lines |-> [i \in 1..(first - 1) |-> Execute(t, fs[i]).text],
              err |-> WithStack(failure, Enter("serrors.Trace", stk)).out,
              used |-> 1]
        ELSE [lines |-> [i \in 1..Len(fs) |-> Execute(t, fs[i]).text],
              err |-> Nil, used |-> 0]

\* Trace(e, t), called from stack stk with a the next free address: the lines
\* (<<>> is the nil slice) and the error.
Trace(e, t, stk, a) ==
    LET se == AsStackTracer(e)
        fs == FramesVisited(StackTrace(se))
        bad == {i \in 1..Len(fs) : ~Execute(t, fs[i]).ok}
        first == CHOOSE i \in bad : \A j \in bad : i <= j
        failure == MkExecError(t, ErrorsNew(Execute(t, fs[first]).text, a))
    IN  IF se = Nil THEN [lines |-> <<>>, err |-> Nil, used |-> 0]
        ELSE IF bad # {}
        THEN [lines |-> <<>>,
              err |-> WithStack(failure, Enter("serrors.Trace", stk)).out,
              used |-> 1]
        ELSE [lines |-> [i \in 1..Len(fs) |-> Execute(t, fs[i]).text],
              err |-> Nil, used |-> 0]

\* ------------------------------------------------------------- formatting

\* The verbs a caller formats an error with: %s, %v, %+v and %q.
Verbs == {"s", "v", "+v", "q"}

\* strings.Join(lines, "\n").
RECURSIVE JoinLines(_)
JoinLines(ls) ==
    IF ls = <<>> THEN <<>>
    ELSE IF Len(ls) = 1 THEN ls[1]
    ELSE ls[1] \o <<"\n">> \o JoinLines(Tail(ls))

\* The %q rendering of a text.
Quote(m) == <<"\"">> \o m \o <<"\"">>

\* Whether the dynamic type has a Format method (fmt.Formatter).
HasFormat(e) == e.kind \in {"stackErr", "statusError"}

\* errors.As(err, &formatter) with formatter a fmt.Formatter.
RECURSIVE AsFormatter(_)
AsFormatter(err) ==
    IF err = Nil THEN Nil
    ELSE IF HasFormat(err) THEN err
    ELSE IF HasUnwrap(err) THEN AsFormatter(Unwrap(err))
    ELSE Nil

\* fmt.Sprintf("%" + verb, e) for an error e: the Format method when the
\* type has one, else Error(); StackErrFormat and StatusErrorFormat are the
\* Format methods of the two types.
\* A Format that writes the frames for every verb.
StackErrFormatAlwaysVerbose(se, verb) ==
    ErrorMsg(se) \o <<"\n">> \o JoinLines(Trace(se, "StandardFormat", <<>>, 0).lines)

\* A Format whose verbose form renders the frames with the two-line template.
StackErrFormatPanicTemplate(se, verb) ==
    IF verb = "+v"
    THEN ErrorMsg(se) \o <<"\n">> \o JoinLines(Trace(se, "PanicFormat", <<>>, 0).lines)
    ELSE IF verb = "q" THEN Quote(ErrorMsg(se)) ELSE ErrorMsg(se)

\* A Format that writes the message only, without asking the wrapped error.
StatusErrorFormatPlain(s, verb) == ErrorMsg(s)

RECURSIVE Sprintf(_, _)
RECURSIVE StackErrFormat(_, _)
RECURSIVE StatusErrorFormat(_, _)

StackErrFormat(se, verb) ==
    CASE verb = "+v" ->
            Sprintf("+v", Unwrap(se)) \o <<"\n">>
                \o JoinLines(Trace(se, "StandardFormat", <<>>, 0).lines)
      [] verb = "v" -> ErrorMsg(se)
      [] verb = "s" -> ErrorMsg(se)
      [] verb = "q" -> Quote(ErrorMsg(se))
      [] OTHER -> <<>>

StatusErrorFormat(s, verb) ==
    LET formatter == AsFormatter(s.Err)
    IN  IF formatter # Nil
        THEN (IF formatter.kind = "stackErr"
              THEN StackErrFormat(formatter, verb)
              ELSE StatusErrorFormat(formatter, verb))
        ELSE ErrorMsg(s)

Sprintf(verb, e) ==
    IF e = Nil THEN <<"<nil>">>
    ELSE IF e.kind = "stackErr" THEN StackErrFormat(e, verb)
    ELSE IF e.kind = "statusError" THEN StatusErrorFormat(e, verb)
    ELSE IF verb = "q" THEN Quote(ErrorMsg(e))
    ELSE ErrorMsg(e)

\* --------------------------------------------------------------- status.go

\* http.StatusText(code) for the codes of the model; "" when unrecognised.
StatusText(code) ==
    CASE code = 200 -> "OK"
      [] code = 418 -> "I'm a teapot"
      [] OTHER -> ""

\* NewStatusError(code, msg).
NewStatusError(code, m, stk, a) ==
    Ret(MkStatusError(code,
            MkStackErr(a + 1, ErrorsNew(<<m>>, a),
                       buildStackTrace(Enter("serrors.NewStatusError", stk)), Nil)), 2)

\* NewStatusErrorf(code, format, a...): e is the %w operand (Nil when the
\* format has none).
\* NewStatusErrorf that refers to a Traced Error it makes itself.
NewStatusErrorfDelegatesToFresh(code, e, stk, a) ==
    LET err == FmtErrorf("w: ", e, a)
        here == buildStackTrace(Enter("serrors.NewStatusErrorf", stk))
    IN  IF AsStackTracer(err) # Nil
        THEN Ret(MkStatusError(code,
                    MkStackErr(a + 1, err, <<>>, MkStackErr(0, err, here, Nil))), 2)
        ELSE Ret(MkStatusError(code, MkStackErr(a + 1, err, here, Nil)), 2)

\* NewStatusErrorf that captures even when it refers to an earlier tracer.
NewStatusErrorfKeepsBoth(code, e, stk, a) ==
    LET err == FmtErrorf("w: ", e, a)
        here == buildStackTrace(Enter("serrors.NewStatusErrorf", stk))
    IN  Ret(MkStatusError(code, MkStackErr(a + 1, err, here, AsStackTracer(err))), 2)

NewStatusErrorf(code, e, stk, a) ==
    LET err == FmtErrorf("w: ", e, a)
        st == AsStackTracer(err)
    IN  IF st # Nil
        THEN Ret(MkStatusError(code, MkStackErr(a + 1, err, <<>>, st)), 2)
        ELSE Ret(MkStatusError(code,
                    MkStackErr(a + 1, err,
                               buildStackTrace(Enter("serrors.NewStatusErrorf", stk)), Nil)), 2)

\* WithStatus that never adds a trace.
WithStatusNoTrace(code, err, stk, a) ==
    IF err = Nil THEN Panic(NilStatusPanic)
    ELSE Ret(MkStatusError(code, err), 0)

\* WithStatus without the nil check.
WithStatusNoNilCheck(code, err, stk, a) ==
    IF AsStackTracer(err) # Nil THEN Ret(MkStatusError(code, err), 0)
    ELSE Ret(MkStatusError(code,
                MkStackErr(a, err, buildStackTrace(Enter("serrors.WithStatus", stk)), Nil)), 1)

\* WithStatus that does not store the code it is given.
WithStatusDropsCode(code, err, stk, a) ==
    IF err = Nil THEN Panic(NilStatusPanic)
    ELSE IF AsStackTracer(err) # Nil THEN Ret(MkStatusError(0, err), 0)
    ELSE Ret(MkStatusError(0,
                MkStackErr(a, err, buildStackTrace(Enter("serrors.WithStatus", stk)), Nil)), 1)

\* WithStatus(code, err).
WithStatus(code, err, stk, a) ==
    IF err = Nil THEN Panic(NilStatusPanic)
    ELSE IF AsStackTracer(err) # Nil THEN Ret(MkStatusError(code, err), 0)
    ELSE Ret(MkStatusError(code,
                MkStackErr(a, err, buildStackTrace(Enter("serrors.WithStatus", stk)), Nil)), 1)

\* NewFromStatus(code).
\* NewFromStatus without the fallback text for an unrecognised code.
NewFromStatusNoFallback(code, stk, a) ==
    Ret(MkStatusError(code,
            MkStackErr(a + 1, ErrorsNew(<<StatusText(code)>>, a),
                       buildStackTrace(Enter("serrors.NewFromStatus", stk)), Nil)), 2)

NewFromStatus(code, stk, a) ==
    LET text == StatusText(code)
        m == IF text = "" THEN UnknownStatusText ELSE text
    IN  Ret(MkStatusError(code,
                MkStackErr(a + 1, ErrorsNew(<<m>>, a),
                           buildStackTrace(Enter("serrors.NewFromStatus", stk)), Nil)), 2)

\* StatusCode that reports the absolute value of the code.
StatusCodeAbs(s) == IF s.HTTPStatusCode < 0 THEN -s.HTTPStatusCode ELSE s.HTTPStatusCode

\* (s statusError) StatusCode().
StatusCode(s) == s.HTTPStatusCode

\* ------------------------------------------------------------ the program

\* The program is a sequence of at most MaxCalls calls, the n-th on line n:
\* it builds errors and may, as its last step, render one of them with Trace
\* or with a fmt verb.
\* calls logs each call: the operation, the index of the call whose result
\* is its error argument (0: the argument is nil, or there is none), the
\* status code argument, the text argument (message, template or verb), the
\* error returned, the text returned (Trace's lines, Sprintf's string) and
\* the panic value.
Line == Len(calls) + 1
Here == CallerStack(Line)

\* The error argument of a call: nil (0) or the result of an earlier call.
ArgOf(i) == IF i = 0 THEN Nil ELSE calls[i].out
\* The earlier calls that returned an error.
ErrArgs == {i \in 1..Len(calls) : calls[i].panicked = "" /\ calls[i].out # Nil}
\* The error arguments available to a call that accepts nil.
Args == {0} \cup ErrArgs

\* The calls that render an error.
ObserveOps == {"Trace", "Sprintf"}

\* The error built last, if the last call returned one: what the program
\* renders (every error of the program is the last one of a shorter program).
Latest == {i \in ErrArgs : i = Len(calls)}

\* A panic ends the program, and so does rendering an error.
Running ==
    \A j \in 1..Len(calls) : calls[j].panicked = "" /\ calls[j].op \notin ObserveOps

\* A call that turns its error argument into the error it returns.
LogCallOverwritesArg(op, i, c, m, r, txt) ==
    /\ Running
    /\ Len(calls) < MaxCalls
    /\ calls' = Append(IF i = 0 \/ r.out = Nil THEN calls ELSE [calls EXCEPT ![i].out = r.out],
                       [op |-> op, arg |-> i, code |-> c, line |-> Line,
                        text |-> m, out |-> r.out, shown |-> txt,
                        panicked |-> r.panicked])
    /\ nextAddr' = nextAddr + r.used
    /\ UNCHANGED <<readers, cursors>>

LogCall(op, i, c, m, r, txt) ==
    /\ Running
    /\ Len(calls) < MaxCalls
    /\ calls' = Append(calls, [op |-> op, arg |-> i, code |-> c, line |-> Line,
                               text |-> m, out |-> r.out, shown |-> txt,
                               panicked |-> r.panicked])
    /\ nextAddr' = nextAddr + r.used
    /\ UNCHANGED <<readers, cursors>>

Log(op, i, c, r) == LogCall(op, i, c, "", r, <<>>)

\* The goroutines that read the shared error, and the *runtime.Frames objects
\* on the heap (goroutine g's call of StackTrace allocates object g).
Goroutines == 1..MaxReaders
FrameIds == 0..MaxReaders

\* What a read returns: the lines and error of Trace, the message of Error,
\* the error of Unwrap, the code of StatusCode, the answer of errors.Is.
Result(lines, err, code, ok) == [lines |-> lines, err |-> err, code |-> code, ok |-> ok]

\* A goroutine that has not called anything yet.
IdleReader ==
    [op |-> "", text |-> "", pc |-> "idle", saw |-> Nil, at |-> 0, got |-> <<>>, lines |-> <<>>,
     result |-> Result(<<>>, Nil, 0, ""), before |-> {}, raced |-> FALSE]

Init ==
    /\ calls = <<>>
    /\ nextAddr = 1
    /\ readers = [g \in Goroutines |-> IdleReader]
    /\ cursors = [id \in FrameIds |-> [live |-> FALSE, callers |-> <<>>]]

\* Errors made outside the package: errors.New, a Sentinel constant, and
\* fmt.Errorf with and without a %w operand.
CallErrorsNew == Log("errors.New", 0, 0, Ret(ErrorsNew(<<"e">>, nextAddr), 1))
CallSentinel(m) == LogCall("Sentinel", 0, 0, m, Ret(Sentinel(m), 0), <<>>)
CallFmtErrorf(i) == Log("fmt.Errorf", i, 0, Ret(FmtErrorf("f: ", ArgOf(i), nextAddr), 1))

\* The package's functions.
CallNew(m) == LogCall("New", 0, 0, m, New(m, Here, nextAddr), <<>>)
CallWithStack(i) == Log("WithStack", i, 0, WithStack(ArgOf(i), Here))
CallErrorf(i) == Log("Errorf", i, 0, Errorf(ArgOf(i), Here, nextAddr))
CallNewStatusError(c) == Log("NewStatusError", 0, c, NewStatusError(c, "s", Here, nextAddr))
CallNewStatusErrorf(c, i) == Log("NewStatusErrorf", i, c, NewStatusErrorf(c, ArgOf(i), Here, nextAddr))
CallWithStatus(c, i) == Log("WithStatus", i, c, WithStatus(c, ArgOf(i), Here, nextAddr))
CallNewFromStatus(c) == Log("NewFromStatus", 0, c, NewFromStatus(c, Here, nextAddr))

\* Rendering: Trace with a template, and fmt.Sprintf with a verb.
CallTrace(i, t) ==
    LET r == Trace(ArgOf(i), t, Here, nextAddr)
    IN  LogCall("Trace", i, 0, t, Ret(r.err, r.used), r.lines)
CallSprintf(i, verb) ==
    LogCall("Sprintf", i, 0, verb, Ret(Nil, 0), Sprintf(verb, ArgOf(i)))

Next ==
    \/ CallErrorsNew
    \/ \E m \in Msgs : CallSentinel(m)
    \/ \E i \in {0} \cup ErrArgs : CallFmtErrorf(i)
    \/ \E m \in Msgs : CallNew(m)
    \/ \E i \in Args : CallWithStack(i)
    \/ \E i \in {0} \cup ErrArgs : CallErrorf(i)
    \/ \E c \in Codes : CallNewStatusError(c)
    \/ \E c \in Codes, i \in {0} \cup ErrArgs : CallNewStatusErrorf(c, i)
    \/ \E c \in Codes, i \in Args : CallWithStatus(c, i)
    \/ \E c \in FromStatusCodes : CallNewFromStatus(c)
    \/ \E i \in {0} \cup Latest, t \in Templates : CallTrace(i, t)
    \/ \E i \in Latest, verb \in Verbs : CallSprintf(i, verb)

Spec == Init /\ [][Next]_vars

\* ------------------------------------------------- concurrent readers
\* A program that builds one error and hands it to goroutines that read it
\* concurrently.  A read of the error's fields is one step: the fields are
\* written only by the constructors.  The iteration of Trace is one step per
\* frame, over the *runtime.Frames object that StackTrace returned.

\* No goroutine has started: the program is still building the error.
Building == \A g \in Goroutines : readers[g].pc = "idle"

\* The error handed to the goroutines: the one built last.
SharedErr == calls[Len(calls)].out

\* The call stack of a reading goroutine.
ReaderStack ==
    << Frame("main.reader", "main.go", 0), Frame("runtime.goexit", "runtime", 0) >>

\* The unwrap chain of an error, outermost first.
RECURSIVE Chain(_)
Chain(e) ==
    IF e = Nil THEN <<>>
    ELSE IF HasUnwrap(e) THEN <<e>> \o Chain(Unwrap(e))
    ELSE <<e>>

\* The innermost error of e's chain.
Root(e) == Chain(e)[Len(Chain(e))]

\* The reads of the error's fields.
ReadOps == {"Error", "Unwrap", "StatusCode", "Is"}

\* What a read of e returns.
Read(op, e) ==
    LET sc == AsStatusCoder(e)
    IN  CASE op = "Error" -> Result(<<ErrorMsg(e)>>, Nil, 0, "")
          [] op = "Unwrap" -> Result(<<>>, IF HasUnwrap(e) THEN Unwrap(e) ELSE Nil, 0, "")
          [] op = "StatusCode" ->
                IF sc = Nil THEN Result(<<>>, Nil, 0, "false")
                ELSE Result(<<>>, Nil, StatusCode(sc), "true")
          [] op = "Is" -> Result(<<>>, Nil, 0, Is(e, Root(e)))

\* One Frames object for every call, allocated once and kept.
CallersFramesCached(heap, g, trace) ==
    [heap |-> IF heap[0].live THEN heap
              ELSE [heap EXCEPT ![0] = [live |-> TRUE, callers |-> trace]],
     at |-> 0]

\* One Frames object for every call, reset by each call.
CallersFramesShared(heap, g, trace) ==
    [heap |-> [heap EXCEPT ![0] = [live |-> TRUE, callers |-> trace]], at |-> 0]

\* runtime.CallersFrames(se.trace), called by goroutine g: a new Frames
\* object over the whole snapshot.
CallersFrames(heap, g, trace) ==
    [heap |-> [heap EXCEPT ![g] = [live |-> TRUE, callers |-> trace]], at |-> g]

\* The goroutines that have returned from their call.
Done == {g \in Goroutines : readers[g].pc = "done"}

\* The steps that build the shared error: a first error, then wrappers of the
\* error built last (an error that is not part of the shared one is not read).
BuildGuard == Building /\ Len(calls) < MaxBuild
WrapArgs == IF calls = <<>> THEN {0} ELSE Latest
BuildErrorsNew == BuildGuard /\ calls = <<>> /\ CallErrorsNew
BuildNew == BuildGuard /\ calls = <<>> /\ CallNew("a")
BuildErrorf == BuildGuard /\ \E i \in WrapArgs : CallErrorf(i)
BuildWithStatus == BuildGuard /\ \E i \in Latest : CallWithStatus(0, i)
BuildNewStatusErrorf == BuildGuard /\ \E i \in WrapArgs : CallNewStatusErrorf(0, i)

\* Goroutine g calls Error, Unwrap, StatusCode or errors.Is on the shared error.
StartRead(g, op) ==
    /\ Latest # {}
    /\ readers[g].pc = "idle"
    /\ readers' = [readers EXCEPT ![g] =
            [@ EXCEPT !.op = op, !.pc = "done", !.saw = SharedErr,
                      !.result = Read(op, SharedErr)]]
    /\ UNCHANGED <<calls, nextAddr, cursors>>

\* Goroutine g calls Trace(e, t) on the shared error.
StartTrace(g, t) ==
    /\ Latest # {}
    /\ readers[g].pc = "idle"
    /\ readers' = [readers EXCEPT ![g] =
            [@ EXCEPT !.op = "Trace", !.text = t, !.pc = "as", !.saw = SharedErr,
                      !.before = Done]]
    /\ UNCHANGED <<calls, nextAddr, cursors>>

\* Trace, errors.go:131-136: errors.As, then se.StackTrace().
StepAs(g) ==
    LET se == AsStackTracer(SharedErr)
        made == CallersFrames(cursors, g, StackTrace(se))
    IN  /\ readers[g].pc = "as"
        /\ IF se = Nil
           THEN /\ readers' = [readers EXCEPT ![g] =
                        [@ EXCEPT !.pc = "done", !.result = Result(<<>>, Nil, 0, "")]]
                /\ UNCHANGED cursors
           ELSE /\ cursors' = made.heap
                /\ readers' = [readers EXCEPT ![g] =
                        [@ EXCEPT !.pc = "next", !.at = made.at,
                                  !.got = made.heap[made.at].callers]]
        /\ UNCHANGED <<calls, nextAddr>>

\* Trace, errors.go:138-149: one turn of the loop over frames.Next().
StepNext(g) ==
    LET r == readers[g]
        cur == cursors[r.at].callers
        frame == IF cur = <<>> THEN Frame("", "", 0) ELSE Head(cur)
        rest == IF cur = <<>> THEN <<>> ELSE Tail(cur)
        ex == Execute(r.text, frame)
        failure == MkExecError(r.text, ErrorsNew(ex.text, nextAddr + g))
        lines == Append(r.lines, ex.text)
        raced == r.raced \/ \E h \in Goroutines \ {g} : readers[h].pc = "next"
    IN  /\ r.pc = "next"
        /\ cursors' = [cursors EXCEPT ![r.at].callers = rest]
        /\ readers' = [readers EXCEPT ![g] =
                IF ~ex.ok
                THEN [@ EXCEPT !.pc = "done", !.raced = raced, !.lines = <<>>,
                        !.result = Result(<<>>,
                            WithStack(failure, Enter("serrors.Trace", ReaderStack)).out, 0, "")]
                ELSE IF rest = <<>>
                THEN [@ EXCEPT !.pc = "done", !.raced = raced, !.lines = lines,
                        !.result = Result(lines, Nil, 0, "")]
                ELSE [@ EXCEPT !.raced = raced, !.lines = lines]]
        /\ UNCHANGED <<calls, nextAddr>>

\* The templates the goroutines render with.
ReaderTemplates == {"StandardFormat", "InvalidInMain"}

NextReaders ==
    \/ BuildErrorsNew
    \/ BuildNew
    \/ BuildErrorf
    \/ BuildWithStatus
    \/ BuildNewStatusErrorf
    \/ \E g \in Goroutines, op \in ReadOps : StartRead(g, op)
    \/ \E g \in Goroutines, t \in ReaderTemplates : StartTrace(g, t)
    \/ \E g \in Goroutines : StepAs(g)
    \/ \E g \in Goroutines : StepNext(g)

SpecReaders == Init /\ [][NextReaders]_vars

\* ------------------------------------------------------------ properties

\* The calls that returned.
Returned == {j \in 1..Len(calls) : calls[j].panicked = ""}
\* The calls that returned an error.
Made == {j \in Returned : calls[j].out # Nil}
\* The errors the program holds.
Outs == {calls[j].out : j \in Made}
\* The calls of the status constructors.
StatusOps == {"WithStatus", "NewStatusError", "NewStatusErrorf", "NewFromStatus"}
\* The calls that wrap their error argument.
WrapOps == {"WithStack", "Errorf", "WithStatus", "NewStatusErrorf", "fmt.Errorf"}

\* A Traced Error that holds its own snapshot.
Captures(e) == e.kind = "stackErr" /\ e.stackTracer = Nil
\* A Traced Error that refers to another StackTracer.
Passthrough(e) == e.kind = "stackErr" /\ e.stackTracer # Nil /\ e.trace = <<>>

\* Whether the chain of e holds a trace, and the frames it reports.
Traced(e) == AsStackTracer(e) # Nil
FramesOf(e) == StackTrace(AsStackTracer(e))
\* The lines Trace gives for e with the one-line template.
LinesOf(e) == Trace(e, "StandardFormat", Here, nextAddr).lines

\* C1: in every error chain the program can build with the constructors and
\* wrappers, at most one Traced Error holds its own snapshot, and every other
\* Traced Error of the chain is a passthrough reporting that one's snapshot.
C1_OneCapturePerChain ==
    \A e \in Outs :
        LET ch == Chain(e)
            caps == {k \in 1..Len(ch) : Captures(ch[k])}
        IN  /\ Cardinality(caps) <= 1
            /\ \A k \in 1..Len(ch) :
                  (ch[k].kind = "stackErr" /\ k \notin caps) =>
                      /\ Passthrough(ch[k])
                      /\ \E c \in caps : Capturer(ch[k]) = ch[c]

\* A chain with a passthrough above the capturing Traced Error.
C1_Witness ==
    \E e \in Outs :
        \E k, c \in 1..Len(Chain(e)) :
            /\ k < c
            /\ Passthrough(Chain(e)[k])
            /\ Captures(Chain(e)[c])

\* What can be observed of x and of y is the same: message, trace lines,
\* unwrap target, and errors.Is against and from every error of the program.
SameObservations(x, y) ==
    /\ ErrorMsg(x) = ErrorMsg(y)
    /\ LinesOf(x) = LinesOf(y)
    /\ Unwrap(x) = Unwrap(y)
    /\ \A z \in Outs : Is(x, z) = Is(y, z) /\ Is(z, x) = Is(z, y)

\* C2: WithStack(WithStack(e)) is observably identical to WithStack(e) for
\* non-nil e, and WithStack returns its argument itself when the argument's
\* chain already holds a StackTracer.
C2_WithStackIdempotent ==
    \A j \in Made :
        calls[j].op = "WithStack" =>
            LET i == calls[j].arg
            IN  /\ calls[i].op = "WithStack" =>
                      SameObservations(calls[j].out, calls[i].out)
                /\ Traced(calls[i].out) => calls[j].out = calls[i].out

\* WithStack applied to the result of a WithStack that captured.
C2_Witness ==
    \E j \in Made :
        /\ calls[j].op = "WithStack"
        /\ calls[calls[j].arg].op = "WithStack"
        /\ calls[calls[j].arg].arg \in Made
        /\ ~Traced(calls[calls[calls[j].arg].arg].out)

\* C3: WithStack(nil) returns nil: no Traced Error is made, nothing captured.
C3_WithStackNil ==
    \A j \in 1..Len(calls) :
        (calls[j].op = "WithStack" /\ ArgOf(calls[j].arg) = Nil) =>
            calls[j].out = Nil /\ calls[j].panicked = ""

\* WithStack has been called with nil.
C3_Witness ==
    \E j \in 1..Len(calls) : calls[j].op = "WithStack" /\ ArgOf(calls[j].arg) = Nil

\* The call whose capture a call's result reports: the first call of the
\* wrapping sequence whose argument held no trace.
RECURSIVE Origin(_)
Origin(j) ==
    IF calls[j].op \in WrapOps /\ calls[j].arg \in Made /\ Traced(calls[calls[j].arg].out)
    THEN Origin(calls[j].arg)
    ELSE j

\* C4: once a chain holds a trace, wrapping it by any sequence of WithStack,
\* Errorf %w, WithStatus, NewStatusErrorf %w or fmt.Errorf %w leaves the
\* frames reported unchanged: they are those of the original capture.
C4_TracePreserved ==
    \A j \in Made :
        (Traced(calls[j].out) /\ calls[j].op \notin ObserveOps) =>
            /\ FramesOf(calls[j].out) = FramesOf(calls[Origin(j)].out)
            /\ LinesOf(calls[j].out) = LinesOf(calls[Origin(j)].out)
            /\ FramesOf(calls[j].out)[1].Line = calls[Origin(j)].line

\* A traced error wrapped twice after its capture.
C4_Witness ==
    \E j \in Made :
        /\ Traced(calls[j].out)
        /\ Origin(j) # j
        /\ Origin(j) # calls[j].arg

\* C5: every Status Error the status constructors return has a StackTracer in
\* its chain, and Trace on it with a valid template gives a non-empty list of
\* frames and a nil error.
C5_StatusErrorTraceable ==
    \A j \in Made :
        calls[j].op \in StatusOps =>
            /\ Traced(calls[j].out)
            /\ \A t \in {"StandardFormat", "PanicFormat"} :
                  LET r == Trace(calls[j].out, t, Here, nextAddr)
                  IN  r.lines # <<>> /\ r.err = Nil

\* WithStatus has wrapped an error that had no trace.
C5_Witness ==
    \E j \in Made :
        /\ calls[j].op = "WithStatus"
        /\ ~Traced(calls[calls[j].arg].out)

\* C6: WithStatus(c, nil) panics with "cannot attach status to nil error" and
\* returns no error, whatever the code c.
C6_WithStatusNilPanics ==
    \A j \in 1..Len(calls) :
        (calls[j].op = "WithStatus" /\ ArgOf(calls[j].arg) = Nil) =>
            /\ calls[j].panicked = "cannot attach status to nil error"
            /\ calls[j].out = Nil

\* WithStatus has been called with nil and the zero code.
C6_Witness ==
    \E j \in 1..Len(calls) :
        /\ calls[j].op = "WithStatus"
        /\ ArgOf(calls[j].arg) = Nil
        /\ calls[j].code = 0

\* C7: errors.As with a StatusCoder target succeeds on the result of every
\* status constructor, and StatusCode() is exactly the code given, also for
\* zero and negative codes.
C7_StatusCodeExtracted ==
    \A j \in Made :
        calls[j].op \in StatusOps =>
            /\ AsStatusCoder(calls[j].out) # Nil
            /\ StatusCode(AsStatusCoder(calls[j].out)) = calls[j].code

\* A status constructor has been called with a negative code.
C7_Witness ==
    \E j \in Made : calls[j].op \in StatusOps /\ calls[j].code < 0

\* C8: errors.Is(WithStatus(c1, e), WithStatus(c2, e)) is false when c1 # c2,
\* for traced and untraced e.
C8_DifferentCodesNotEqual ==
    \A i, j \in Made :
        ( /\ calls[i].op = "WithStatus"
          /\ calls[j].op = "WithStatus"
          /\ calls[i].arg = calls[j].arg
          /\ calls[i].code # calls[j].code ) =>
            Is(calls[i].out, calls[j].out) = "false"

\* WithStatus has been applied twice, with different codes, to one traced error.
C8_Witness ==
    \E i, j \in Made :
        /\ calls[i].op = "WithStatus"
        /\ calls[j].op = "WithStatus"
        /\ calls[i].arg = calls[j].arg
        /\ calls[i].code # calls[j].code
        /\ Traced(calls[calls[i].arg].out)

\* C9: for every Status Error s returned by WithStatus, errors.Is(s, s) is
\* true and errors.Is(fmt.Errorf("wrapped: %w", s), s) is true; the
\* comparison completes with a boolean.
C9_StatusErrorIsItself ==
    \A j \in Made :
        calls[j].op = "WithStatus" =>
            /\ Is(calls[j].out, calls[j].out) = "true"
            /\ Is(FmtErrorf("wrapped: ", calls[j].out, nextAddr), calls[j].out) = "true"

\* The Traced Errors of the program: those in the chains of its errors.
TracedErrors ==
    UNION { LET ch == Chain(e)
            IN  {ch[k] : k \in {n \in 1..Len(ch) : ch[n].kind = "stackErr"}}
            : e \in Outs }

\* C10: for any two Traced Errors a and b of the package whose wrapped causes
\* are chain-equal, errors.Is(a, b) is true whatever their frames; and
\* errors.Is(t, t) is true for every Traced Error t.
C10_TracedErrorsEqualByCause ==
    \A a, b \in TracedErrors :
        /\ Is(a.err, b.err) = "true" => Is(a, b) = "true"
        /\ Is(a, a) = "true"

\* C11: for a Traced Error t with cause c and a plain (untraced) error p,
\* errors.Is(t, p) equals errors.Is(c, p); so errors.Is(WithStack(e), e) and
\* errors.Is(Errorf("...: %w", e), e) are true for every non-nil untraced e,
\* a Sentinel included.
C11_IsDelegatesToCause ==
    /\ \A t \in TracedErrors :
          \A p \in Outs : ~Traced(p) => Is(t, p) = Is(t.err, p)
    /\ \A j \in Made :
          ( /\ calls[j].op \in {"WithStack", "Errorf"}
            /\ calls[j].arg \in Made
            /\ ~Traced(calls[calls[j].arg].out) ) =>
              Is(calls[j].out, calls[calls[j].arg].out) = "true"

\* Errorf has wrapped a Sentinel with %w.
C11_Witness ==
    \E j \in Made :
        /\ calls[j].op = "Errorf"
        /\ calls[j].arg \in Made
        /\ calls[calls[j].arg].op = "Sentinel"

\* C12: two Sentinel values are equal, by == and by errors.Is, exactly when
\* their strings are equal, and Sentinel(s).Error() is s.
C12_SentinelByValue ==
    \A i, j \in Made :
        (calls[i].op = "Sentinel" /\ calls[j].op = "Sentinel") =>
            /\ (GoEq(calls[i].out, calls[j].out) = "true") <=> (calls[i].text = calls[j].text)
            /\ (Is(calls[i].out, calls[j].out) = "true") <=> (calls[i].text = calls[j].text)
            /\ GoEq(calls[i].out, calls[j].out) \in {"true", "false"}
            /\ Is(calls[i].out, calls[j].out) \in {"true", "false"}
            /\ ErrorMsg(calls[j].out) = <<calls[j].text>>

\* Two Sentinels of one string and a third of another string.
C12_Witness ==
    \E i, j, k \in Made :
        /\ i # j
        /\ calls[i].op = "Sentinel" /\ calls[j].op = "Sentinel" /\ calls[k].op = "Sentinel"
        /\ calls[i].text = calls[j].text
        /\ calls[i].text # calls[k].text

\* C13: Trace(e, t) on an error whose chain has no StackTracer, nil included,
\* returns a nil slice and a nil error, whatever the template.
C13_TraceWithoutTracer ==
    /\ \A j \in 1..Len(calls) :
          (calls[j].op = "Trace" /\ ~Traced(ArgOf(calls[j].arg))) =>
              /\ calls[j].shown = <<>>
              /\ calls[j].out = Nil
              /\ calls[j].panicked = ""
    /\ \A e \in Outs \cup {Nil} :
          ~Traced(e) =>
              \A t \in Templates :
                  LET r == Trace(e, t, Here, nextAddr)
                  IN  r.lines = <<>> /\ r.err = Nil

\* Trace has been called on an untraced error with a template that cannot
\* be executed.
C13_Witness ==
    \E j \in 1..Len(calls) :
        /\ calls[j].op = "Trace"
        /\ calls[j].arg # 0
        /\ ~Traced(ArgOf(calls[j].arg))
        /\ calls[j].text = "InvalidFormat"

\* The templates whose execution fails on some frame of every snapshot.
FailingTemplates == {"InvalidFormat", "InvalidInMain"}

\* C14: Trace(e, t) on a traced error with a template that fails to execute
\* returns a nil slice, never a partial list, whichever frame fails, and a
\* non-nil error that carries the failure message and has its own trace.
C14_TraceTemplateFailure ==
    /\ \A j \in 1..Len(calls) :
          ( /\ calls[j].op = "Trace"
            /\ Traced(ArgOf(calls[j].arg))
            /\ calls[j].text \in FailingTemplates ) =>
              /\ calls[j].shown = <<>>
              /\ calls[j].out # Nil
              /\ ErrorMsg(calls[j].out) = <<"can't evaluate field Foobar in type runtime.Frame">>
              /\ Captures(AsStackTracer(calls[j].out))
              /\ FramesOf(calls[j].out) = Enter("serrors.Trace", CallerStack(calls[j].line))
    /\ \A e \in Outs :
          Traced(e) =>
              \A t \in FailingTemplates :
                  LET r == Trace(e, t, Here, nextAddr)
                  IN  r.lines = <<>> /\ r.err # Nil /\ Traced(r.err)

\* Trace has failed on the second frame of a snapshot.
C14_Witness ==
    \E j \in 1..Len(calls) :
        /\ calls[j].op = "Trace"
        /\ Traced(ArgOf(calls[j].arg))
        /\ calls[j].text = "InvalidInMain"
        /\ Execute("InvalidInMain", FramesOf(ArgOf(calls[j].arg))[1]).ok

\* The calls that have rendered the error made by call j with the verb.
Rendered(j, verb) ==
    {k \in 1..Len(calls) :
        calls[k].op = "Sprintf" /\ calls[k].arg = j /\ calls[k].text = verb}

\* C15: for every Traced Error, Error() and the %s and %v renderings are
\* exactly the cause's message, with no frame text; New(m).Error() is m,
\* WithStack(e).Error() is e.Error(), and Errorf(f, a...).Error() is
\* fmt.Errorf(f, a...).Error().
C15_ShortFormIsCauseMessage ==
    /\ \A t \in TracedErrors :
          /\ ErrorMsg(t) = ErrorMsg(t.err)
          /\ Sprintf("s", t) = ErrorMsg(t.err)
          /\ Sprintf("v", t) = ErrorMsg(t.err)
    /\ \A j \in Made :
          /\ calls[j].op = "New" => ErrorMsg(calls[j].out) = <<calls[j].text>>
          /\ calls[j].op = "WithStack" =>
                ErrorMsg(calls[j].out) = ErrorMsg(ArgOf(calls[j].arg))
          /\ calls[j].op = "Errorf" =>
                ErrorMsg(calls[j].out) = ErrorMsg(FmtErrorf("w: ", ArgOf(calls[j].arg), 0))
          /\ calls[j].out.kind = "stackErr" =>
                \A k \in Rendered(j, "s") \cup Rendered(j, "v") :
                    calls[k].shown = ErrorMsg(calls[j].out.err)

\* A capturing Traced Error has been rendered with %v.
C15_Witness ==
    \E j \in Made :
        /\ calls[j].op = "WithStack"
        /\ Captures(calls[j].out)
        /\ Rendered(j, "v") # {}

\* C16: the %+v rendering of a Traced Error is the cause's message, a newline,
\* and the lines of Trace(e, StandardFormat) joined by newlines in Trace's
\* order, for a capturing Traced Error and for a passthrough made by Errorf.
C16_VerboseFormIsMessageAndFrames ==
    /\ \A t \in TracedErrors :
          Sprintf("+v", t) = ErrorMsg(t.err) \o <<"\n">> \o JoinLines(LinesOf(t))
    /\ \A j \in Made :
          calls[j].out.kind = "stackErr" =>
              \A k \in Rendered(j, "+v") :
                  /\ calls[k].shown =
                        ErrorMsg(calls[j].out.err) \o <<"\n">> \o JoinLines(LinesOf(calls[j].out))
                  /\ Len(LinesOf(calls[j].out)) = Len(FramesOf(calls[j].out))

\* A passthrough made by Errorf has been rendered with %+v.
C16_Witness ==
    \E j \in Made :
        /\ calls[j].op = "Errorf"
        /\ Passthrough(calls[j].out)
        /\ Rendered(j, "+v") # {}

\* The frames fs rendered with the one-line template.
RenderFrames(fs) == [i \in 1..Len(fs) |-> Execute("StandardFormat", fs[i]).text]

\* The Status Errors C17 names: WithStatus over a Traced Error, NewStatusErrorf
\* with a traced %w argument, NewFromStatus.
TracedStatusCase(j) ==
    \/ calls[j].op = "NewFromStatus"
    \/ /\ calls[j].op = "WithStatus"
       /\ calls[j].arg \in Made
       /\ calls[calls[j].arg].out.kind = "stackErr"
    \/ /\ calls[j].op = "NewStatusErrorf"
       /\ calls[j].arg \in Made
       /\ Traced(calls[calls[j].arg].out)

C18_StatusShortFormIsError ==
    \A j \in Made :
        calls[j].op \in {"WithStatus", "NewStatusError", "NewStatusErrorf"} =>
            /\ ErrorMsg(calls[j].out) = ErrorMsg(calls[j].out.Err)
            /\ Sprintf("s", calls[j].out) = ErrorMsg(calls[j].out)

\* C19: NewFromStatus(c) yields a Status Error whose message is the HTTP
\* reason text of c when c is recognised (200 "OK", 418 "I'm a teapot") and
\* "Unknown Status Error" for every other code.
C19_NewFromStatusMessage ==
    \A j \in 1..Len(calls) :
        calls[j].op = "NewFromStatus" =>
            /\ calls[j].panicked = ""
            /\ calls[j].out.kind = "statusError"
            /\ calls[j].code = 200 => ErrorMsg(calls[j].out) = <<"OK">>
            /\ calls[j].code = 418 => ErrorMsg(calls[j].out) = <<"I'm a teapot">>
            /\ calls[j].code \notin {200, 418} =>
                  ErrorMsg(calls[j].out) = <<"Unknown Status Error">>

\* NewFromStatus has been called with an unrecognised and a recognised code.
C19_Witness ==
    \E i, j \in Made :
        /\ calls[i].op = "NewFromStatus" /\ calls[i].code = -1
        /\ calls[j].op = "NewFromStatus" /\ calls[j].code = 418

\* The calls of the public functions that can capture.
CaptureOps ==
    {"New", "WithStack", "Errorf", "WithStatus", "NewStatusError",
     "NewStatusErrorf", "NewFromStatus"}

\* C20: whenever one of the public constructors captures, the first recorded
\* frame is the call site of its caller, never buildStackTrace or the public
\* function, and the later frames are the successive callers, innermost first.
C20_FirstFrameIsCallSite ==
    \A j \in Made :
        (calls[j].op \in CaptureOps /\ Origin(j) = j) =>
            LET fs == FramesOf(calls[j].out)
            IN  /\ Captures(AsStackTracer(calls[j].out))
                /\ fs = CallerStack(calls[j].line)
                /\ fs[1] = Frame("main.run", "main.go", calls[j].line)
                /\ \A n \in 1..Len(fs) : fs[n].File \notin {"serrors", "runtime"}

\* WithStatus and Errorf have each captured, on different lines.
C20_Witness ==
    \E i, j \in Made :
        /\ calls[i].op = "WithStatus" /\ Origin(i) = i
        /\ calls[j].op = "Errorf" /\ Origin(j) = j
        /\ calls[i].line # calls[j].line

\* The Trace calls of the goroutines that have returned.
TraceDone == {g \in Done : readers[g].op = "Trace"}

\* C21: rendering one error repeatedly gives the same result: successive calls
\* of Trace(e, t), and of StackTrace(), return the same frame sequence, the
\* stored snapshot, which no call consumes.
C21_RepeatedRenderSame ==
    \A g, h \in TraceDone :
        (g \in readers[h].before /\ Traced(SharedErr)) =>
            /\ readers[g].got = FramesOf(SharedErr)
            /\ readers[h].got = readers[g].got
            /\ readers[h].text = readers[g].text =>
                  /\ readers[h].result.lines = readers[g].result.lines
                  /\ (readers[h].result.err = Nil) <=> (readers[g].result.err = Nil)
                  /\ readers[h].result.err # Nil =>
                        ErrorMsg(readers[h].result.err) = ErrorMsg(readers[g].result.err)

\* A goroutine has rendered both frames of a traced error after another
\* goroutine had returned from rendering them.
C21_Witness ==
    \E g, h \in TraceDone :
        /\ g \in readers[h].before
        /\ Traced(SharedErr)
        /\ readers[g].text = "StandardFormat" /\ readers[h].text = "StandardFormat"
        /\ Len(readers[h].result.lines) = 2

\* What goroutine g's call returns when it runs alone.
Alone(g) ==
    LET r == Trace(SharedErr, readers[g].text, ReaderStack, nextAddr + g)
    IN  IF readers[g].op = "Trace" THEN Result(r.lines, r.err, 0, "")
        ELSE Read(readers[g].op, SharedErr)

\* C22: when goroutines call Trace, Error, Unwrap, StatusCode or errors.Is
\* concurrently on one error, in any interleaving, each call returns what it
\* returns when run alone, and no field of the error changes.
C22_ConcurrentReadsAgree ==
    \A g \in Goroutines :
        /\ readers[g].pc # "idle" => readers[g].saw = SharedErr
        /\ readers[g].pc = "done" => readers[g].result = Alone(g)

\* Two goroutines have iterated the frames of a traced error at the same
\* time, and both have returned.
C22_Witness ==
    \E g, h \in TraceDone :
        /\ g # h
        /\ Traced(SharedErr)
        /\ readers[g].raced /\ readers[h].raced

\* The calls whose result is built without a status constructor.
RECURSIVE StatusFree(_)
StatusFree(j) ==
    \/ calls[j].op \in {"New", "Sentinel", "errors.New"}
    \/ /\ calls[j].op \in {"WithStack", "Errorf", "fmt.Errorf"}
       /\ calls[j].arg = 0 \/ StatusFree(calls[j].arg)

\* C23: status extraction on an error whose chain has no Status Error finds
\* nothing and fails in no way: errors.As with a StatusCoder target is false
\* for New(m), for WithStack(e) and Errorf over status-free inputs and for a
\* Sentinel.
C23_NoStatusWithoutStatusError ==
    \A j \in 1..Len(calls) :
        StatusFree(j) =>
            /\ calls[j].panicked = ""
            /\ AsStatusCoder(calls[j].out) = Nil
            /\ \A k \in 1..Len(Chain(calls[j].out)) :
                  Chain(calls[j].out)[k].kind # "statusError"

\* WithStack has wrapped a Sentinel and Errorf has wrapped the result.
C23_Witness ==
    \E i, j, k \in Made :
        /\ calls[i].op = "Sentinel"
        /\ calls[j].op = "WithStack" /\ calls[j].arg = i
        /\ calls[k].op = "Errorf" /\ calls[k].arg = j

\* The passthrough Traced Errors of the chains built so far.
Passthroughs == {t \in TracedErrors : Passthrough(t)}

\* The number of delegate references followed to resolve se's trace.
RECURSIVE Hops(_)
Hops(se) == IF se.stackTracer # Nil THEN 1 + Hops(se.stackTracer) ELSE 0

\* The Traced Errors of the chain e wraps.
TracersBelow(e) ==
    LET ch == Chain(e.err)
    IN  {k \in 1..Len(ch) : ch[k].kind = "stackErr"}

\* C24 as stated: the delegate of every passthrough Traced Error is the Traced
\* Error that captured, so that resolving its trace takes exactly one hop,
\* also after repeated Errorf or NewStatusErrorf wrapping.
C24_DelegateIsCapturer ==
    \A t \in Passthroughs : Captures(t.stackTracer) /\ Hops(t) = 1

\* C24 amended: the delegate of every passthrough Traced Error is the nearest
\* StackTracer of the chain it wraps, itself a passthrough when the wrapped
\* error was already wrapped; following the delegates reaches the Traced
\* Error that captured after as many hops as the wrapped chain has Traced
\* Errors, and the trace resolved is that capture's.
C24_DelegateIsNearestTracer ==
    \A t \in Passthroughs :
        /\ t.stackTracer = AsStackTracer(t.err)
        /\ Captures(Capturer(t))
        /\ StackTrace(t) = Capturer(t).trace
        /\ Hops(t) = Cardinality(TracersBelow(t))
        /\ Hops(t) >= 1

\* Errorf or NewStatusErrorf has wrapped a passthrough: two hops.
C24_Witness ==
    \E t \in Passthroughs : Hops(t) = 2 /\ Passthrough(t.stackTracer)

\* C25: every Traced Error built through the package API holds either its own
\* captured snapshot or a reference to another StackTracer, never both and
\* never neither.
C25_SnapshotOrDelegate ==
    \A t \in TracedErrors :
        /\ (t.trace # <<>>) # (t.stackTracer # Nil)
        /\ Captures(t) \/ Passthrough(t)
        /\ t.stackTracer # Nil => t.stackTracer.kind = "stackErr"

\* A chain holds a capturing Traced Error under a passthrough made by
\* NewStatusErrorf.
C25_Witness ==
    \E j \in Made :
        /\ calls[j].op = "NewStatusErrorf"
        /\ Passthrough(calls[j].out.Err)
        /\ \E t \in TracedErrors : Captures(t) /\ t.trace # <<>>

\* C26: for non-nil e the unwrap target of WithStatus(c, e) is e itself when
\* e's chain has a StackTracer, and otherwise a new capturing Traced Error
\* whose unwrap target is e; either way errors.Is(WithStatus(c, e), e) is true.
C26_WithStatusUnwrapsToInput ==
    \A j \in Made :
        (calls[j].op = "WithStatus" /\ calls[j].arg \in Made) =>
            LET e == calls[calls[j].arg].out
                s == calls[j].out
            IN  /\ Traced(e) => Unwrap(s) = e
                /\ ~Traced(e) =>
                      /\ Captures(Unwrap(s))
                      /\ Unwrap(Unwrap(s)) = e
                      /\ FramesOf(s) = CallerStack(calls[j].line)
                /\ Is(s, e) = "true"

\* The status code errors.As with a StatusCoder target extracts from e.
CodeOf(e) == StatusCode(AsStatusCoder(e))

\* C27: when a chain holds several Status Errors, status extraction returns
\* the code of the outermost one; wrapping a Status Error with WithStack,
\* Errorf or fmt.Errorf with %w leaves the extracted code unchanged.
C27_OutermostStatusWins ==
    \A j \in Made :
        /\ calls[j].op \in {"WithStatus", "NewStatusErrorf"} =>
              /\ AsStatusCoder(calls[j].out) = calls[j].out
              /\ CodeOf(calls[j].out) = calls[j].code
        /\ ( /\ calls[j].op \in {"WithStack", "Errorf", "fmt.Errorf"}
             /\ calls[j].arg \in Made
             /\ AsStatusCoder(calls[calls[j].arg].out) # Nil ) =>
              /\ AsStatusCoder(calls[j].out) = AsStatusCoder(calls[calls[j].arg].out)
              /\ CodeOf(calls[j].out) = CodeOf(calls[calls[j].arg].out)

\* A Status Error has been given a second, different code and the result
\* has been wrapped by Errorf.
C27_Witness ==
    \E i, j, k \in Made :
        /\ calls[i].op \in StatusOps
        /\ calls[j].op = "WithStatus" /\ calls[j].arg = i
        /\ calls[j].code # calls[i].code
        /\ calls[k].op = "Errorf" /\ calls[k].arg = j

\* What a caller can observe of an error: message, unwrap target, trace
\* frames and status code.
Observed(e) ==
    [msg |-> ErrorMsg(e),
     unwrap |-> IF HasUnwrap(e) THEN Unwrap(e) ELSE Nil,
     frames |-> IF Traced(e) THEN FramesOf(e) ELSE <<>>,
     status |-> IF AsStatusCoder(e) # Nil THEN <<CodeOf(e)>> ELSE <<>>]

\* The calls that wrap the error handed to them.
WrappingOps == {"WithStack", "Errorf", "WithStatus", "NewStatusErrorf"}

C29_CauseIsNotATracer ==
    \A t \in TracedErrors :
        /\ t.err # Nil
        /\ t.err.kind # "stackErr"
        /\ Captures(t) => AsStackTracer(t.err) = Nil
        /\ Passthrough(t) =>
              /\ t.err.kind = "wrapError"
              /\ AsStackTracer(Unwrap(t.err)) # Nil
              /\ AsStackTracer(Unwrap(t.err)) = t.stackTracer

\* Errorf has wrapped a Traced Error directly, and a capturing Traced Error
\* wraps a chain of two untraced errors.
C29_Witness ==
    /\ \E j \in Made :
          /\ calls[j].op = "Errorf"
          /\ calls[j].arg \in Made
          /\ calls[calls[j].arg].out.kind = "stackErr"
    /\ \E t \in TracedErrors : Captures(t) /\ Len(Chain(t.err)) = 2

\* The Traced Errors of e's chain.
TracersOf(e) ==
    LET ch == Chain(e)
    IN  {ch[k] : k \in {n \in 1..Len(ch) : ch[n].kind = "stackErr"}}

\* The calls that can make a passthrough.
DelegatingOps == {"Errorf", "NewStatusErrorf"}

\* C30: resolving the trace of an error made by the package terminates:
\* following the delegates of a passthrough reaches a capturing Traced Error
\* after finitely many hops, since a delegate is always an error that existed
\* before the passthrough was made.
C30_DelegationIsWellFounded ==
    \A j \in Made :
        (calls[j].op \in DelegatingOps /\ Passthrough(AsStackTracer(calls[j].out))) =>
            LET t == AsStackTracer(calls[j].out)
            IN  /\ calls[j].arg \in Made
                /\ calls[j].arg < j
                /\ t.stackTracer \in TracersOf(calls[calls[j].arg].out)
                /\ t.stackTracer # t
                /\ Hops(t) < j
                /\ Captures(Capturer(t))
                /\ Hops(Capturer(t)) = 0

\* NewStatusErrorf has made a passthrough over a passthrough made by Errorf.
C30_Witness ==
    \E i, j \in Made :
        /\ calls[i].op = "Errorf" /\ Passthrough(calls[i].out)
        /\ calls[j].op = "NewStatusErrorf" /\ calls[j].arg = i
        /\ Hops(AsStackTracer(calls[j].out)) = 2

====
